---- MODULE Spec2Model ----
(***************************************************************************)
(* Watershed subdivision engine of PyHSPF                                  *)
(* (src/src/pyhspf/preprocessing/delineators.py, class NHDPlusDelineator). *)
(*                                                                         *)
(* The model follows make_subbasin_outlets from the point where the        *)
(* flowline attributes are loaded: inlet detection, terminal outlet        *)
(* selection, second watershed outlets, main channel tracing, connectivity *)
(* outlets, the drainage-area subdivision loop and the grouping of         *)
(* flowlines into subbasins; then the mass linkage loop of build_watershed.*)
(*                                                                         *)
(* A flowline is identified by its hydroseq, the key of the `flowlines`    *)
(* dictionary.  The dictionary is iterated in key-insertion order; in the  *)
(* model the hydroseq of a flowline IS its position in that order, so      *)
(* "for f in flowlines" visits 1, 2, ..., nn.  The comid is a different    *)
(* number (ComidOf), as in the data.                                       *)
(***************************************************************************)
EXTENDS Integers, Sequences, FiniteSets, TLC

\* ------------------------------------------------------------------ bounds
MaxNodes    == 4      \* flowlines loaded
MaxDrainmax == 1      \* the caller-supplied drainmax (when one is given)
MaxExtras   == 1      \* length of the caller's extras list
MaxGageNodes == 2     \* flowlines loaded when dam and gage files are read
MaxDams     == 1      \* points of the dam file
MaxGages    == 1      \* records of the gage file
MaxYear     == 3      \* years after YearBase that records and ranges span
MaxSamples  == 2      \* raster samples of a catchment
MaxFar      == 1      \* sample distances beyond the tolerance, in steps
MaxRise     == 1      \* elevation difference of a sample, in metres
MaxCatchments == 2    \* catchments of the subbasin's catchment file
MaxParts    == 2      \* shapes format_shape makes of one catchment
MaxShapes   == 2      \* flowline shapes given to closest_index
MaxCoord    == 3      \* largest coordinate of a shape vertex, in degrees
MaxGrid     == 2      \* raster and flowline points lie on a MaxGrid x MaxGrid grid
MaxFlowPoints == 2    \* vertices of the flowline of a catchment
MaxOrderNodes == 3    \* flowlines loaded when the walks are taken in every order

\* a comid is the hydroseq shifted: the two identifier spaces never overlap
ComidBase == 100

None    == 0 - 1                 \* Python's None for drainmax
Outside == MaxNodes + 1          \* a hydroseq that is not loaded (inlet's up)

VARIABLES
    flowlines,    \* hydroseq -> [comid, hydroseq, up, down, drain, divarea]
    extras,       \* argument: [isNone |-> BOOLEAN, items |-> list of comids]
    drainmaxArg,  \* argument: None or a number
    pc,           \* position in the pipeline
    outlets,      \* list of comids
    inlets,       \* list of comids
    max_area,
    last_comid,
    main,         \* hydroseqs of the flowlines in the `main` list
    idx,          \* position of the running "for outlet in outlets" loop
    drainmax,
    n,            \* len(outlets) when the current pass started
    flowline,     \* hydroseq of the `flowline` of the upstream walk
    boundaries,
    drain_area,
    subbasins,    \* comid -> list of member comids
    sbkeys,       \* subbasin comids in build_watershed's iteration order
    updown,       \* mass linkage
    passes,       \* history: passes of the subdivision loop started
    n0,           \* history: len(outlets) when the subdivision loop started
    gage_block,   \* the dam and gage blocks: their inputs and locals
    watershed,    \* build_watershed: the lists of the Watershed instance
    overland_est, \* the overland flow estimate: samples and results
    merge_try,    \* the merge of catchment polygons: counters and calls
    call          \* a helper method followed on its own: arguments, locals

\* a block that is not running has no locals
NotRunning == <<>>

\* the dam block and the gage block (lines 883-969)
damfile            == gage_block.damfile   \* self.damfile: NoFile, GivenFile
gagefile           == gage_block.gagefile  \* self.gagefile
years              == gage_block.years     \* [isNone, first, last]
di                 == gage_block.di        \* dam points read so far
gi                 == gage_block.gi        \* gage records read so far
record             == gage_block.record    \* the gage record, with its comid
gage_outlets       == gage_block.gage_outlets
data_criteria      == gage_block.data_criteria
year_criteria      == gage_block.year_criteria
watershed_criteria == gage_block.watershed_criteria
existing           == gage_block.existing

\* what build_watershed records of the subbasins (lines 545-565)
w_inlets     == watershed.inlets      \* watershed.add_inlet
w_headwaters == watershed.headwaters  \* watershed.add_headwater
w_outlets    == watershed.outlets     \* watershed.add_outlet
sb_inlets    == watershed.sb_inlets   \* subbasin.add_inlet, by subbasin

\* the overland flow estimate (lines 1745-1768)
samples         == overland_est.samples   \* [dist (m), dz (cm)] per sample
oi              == overland_est.oi        \* samples given to get_overland
overland        == overland_est.overland  \* the results of get_overland
overland_vector == overland_est.overland_vector

\* the merge of the catchment polygons (lines 1829-1867)
ncatch == merge_try.ncatch  \* n: catchments in the file
ci     == merge_try.ci      \* catchments formatted by the running loop
shapes == merge_try.shapes  \* len(shapes)
calls  == merge_try.calls   \* history: the calls made and how each ended

\* the variables that only the blocks outside the subdivision pipeline change
aux == <<gage_block, overland_est, merge_try, call>>

vars == <<flowlines, extras, drainmaxArg, pc, outlets, inlets, max_area,
          last_comid, main, idx, drainmax, n, flowline, boundaries,
          drain_area, subbasins, sbkeys, updown, passes, n0, aux, watershed>>

\* ------------------------------------------------------------- list helpers
RECURSIVE SeqOfRange(_, _)
SeqOfRange(a, b) == IF a > b THEN <<>> ELSE <<a>> \o SeqOfRange(a + 1, b)

InList(x, s) == \E i \in 1..Len(s) : s[i] = x

ListSet(s) == {s[i] : i \in 1..Len(s)}

RECURSIVE Filter(_, _)
\* [x for x in s if x in keep]
Filter(s, keep) ==
    IF s = <<>> THEN <<>>
    ELSE IF Head(s) \in keep THEN <<Head(s)>> \o Filter(Tail(s), keep)
         ELSE Filter(Tail(s), keep)

RECURSIVE AppendNew(_, _)
\* for x in s: if x not in out: out.append(x)
AppendNew(out, s) ==
    IF s = <<>> THEN out
    ELSE AppendNew(IF InList(Head(s), out) THEN out ELSE Append(out, Head(s)),
                   Tail(s))

SetMax(S) == CHOOSE m \in S : \A x \in S : x <= m

\* ---------------------------------------------------------------- network
Hydros == DOMAIN flowlines

\* "for f in flowlines": the keys in dictionary order
Listing == SeqOfRange(1, Cardinality(Hydros))

ComidOf(h) == h + ComidBase

\* hydroseqs = {flowlines[f].comid: f for f in flowlines}
hydroseqs == [c \in {flowlines[h].comid : h \in Hydros} |->
                 CHOOSE h \in Hydros : flowlines[h].comid = c]

Comids == DOMAIN hydroseqs

\* [f for f in flowlines if flowlines[f].down == h]
Tributaries(h) == Filter(Listing, {f \in Hydros : flowlines[f].down = h})

Siblings(h) == Filter(Listing, {f \in Hydros : flowlines[f].down = flowlines[h].down
                                               /\ f # h})

ComidsOf(hs) == [i \in 1..Len(hs) |-> flowlines[hs[i]].comid]


\* ------------------------------------------------------- input enumeration
RECURSIVE ReachesEnd(_, _, _)
ReachesEnd(d, h, k) ==
    IF h = 0 THEN TRUE
    ELSE IF k = 0 THEN FALSE
         ELSE ReachesEnd(d, d[h], k - 1)

\* each flowline has one `down` (0 at a terminal root) and there is no cycle
IsForest(d) == \A h \in DOMAIN d : ReachesEnd(d, h, Cardinality(DOMAIN d))

RECURSIVE SumOver(_, _)
SumOver(f, S) ==
    IF S = {} THEN 0
    ELSE LET x == CHOOSE y \in S : TRUE IN f[x] + SumOver(f, S \ {x})

RECURSIVE Cumulative(_, _, _)
\* cumulative drainage area: own increment plus everything upstream
Cumulative(d, inc, h) ==
    LET T == {t \in DOMAIN d : d[t] = h}
    IN  inc[h] + SumOver([t \in T |-> Cumulative(d, inc, t)], T)

\* the flowline records of a network: `down` d, incremental areas inc, the
\* inlet (0: none) whose `up` lies outside the loaded network, and the rule
\* that names the upstream mainstem at a junction
Network(d, inc, inlet, byArea) ==
    LET cum == [h \in DOMAIN d |-> Cumulative(d, inc, h)]
        T(h) == {t \in DOMAIN d : d[t] = h}
        big(h) == {t \in T(h) : \A s \in T(h) : cum[s] <= cum[t]}
        upOf(h) == IF h = inlet THEN Outside
                   ELSE IF T(h) = {} THEN 0
                   ELSE IF byArea THEN CHOOSE t \in big(h) : \A s \in big(h) : t <= s
                   ELSE CHOOSE t \in T(h) : \A s \in T(h) : t <= s
    IN  [h \in DOMAIN d |->
            [comid |-> ComidOf(h), hydroseq |-> h, up |-> upOf(h),
             down |-> d[h], drain |-> cum[h], divarea |-> cum[h]]]

\* the listing (dictionary order) is downstream-first or upstream-first
Listed(d) == \/ \A h \in DOMAIN d : d[h] < h
             \/ \A h \in DOMAIN d : d[h] = 0 \/ d[h] > h

\* all increments are 1 but for at most one flowline z with increment 0;
\* at most one flowline is an inlet
Networks(nn) ==
    { Network(d, [h \in 1..nn |-> IF h = zi[1] THEN 0 ELSE 1], zi[2], byArea) :
        d \in {e \in [1..nn -> 0..nn] : IsForest(e) /\ Listed(e)},
        zi \in {p \in (0..nn) \X (0..nn) : p[1] = 0 \/ p[2] = 0 \/ p[1] = p[2]},
        byArea \in BOOLEAN }

ExtrasArgs(nn) ==
    {[isNone |-> TRUE, items |-> <<>>]} \cup
    {[isNone |-> FALSE, items |-> s] :
        s \in UNION {[1..k -> {ComidOf(h) : h \in 1..nn}] : k \in 0..MaxExtras}}

DrainmaxArgs == {None, MaxDrainmax}

\* build_watershed has classified no subbasin yet
Unclassified ==
    watershed = [inlets |-> <<>>, headwaters |-> <<>>, outlets |-> <<>>,
                 sb_inlets |-> <<>>]

NoFile    == "none"
GivenFile == "given"

\* a gage record before any is read
NoRecord == [comid |-> None, day1 |-> 0, dayn |-> 0, huc |-> "none"]

\* the dam block and the gage block before either runs, for the files and
\* the years given
GageLocals(dams, gages, ys) ==
    [damfile |-> dams, gagefile |-> gages, years |-> ys,
     di |-> 0, gi |-> 0, record |-> NoRecord, gage_outlets |-> <<>>,
     data_criteria |-> FALSE, year_criteria |-> FALSE,
     watershed_criteria |-> FALSE, existing |-> FALSE]

\* combine_catchments is not running
NoCatchments ==
    /\ overland_est = NotRunning
    /\ merge_try = NotRunning

\* no dam file and no gage file: neither block runs
NoPointFiles == gage_block = NotRunning

\* no helper method is followed on its own
NoCall == call = NotRunning

Init ==
    /\ \E nn \in 1..MaxNodes :
          /\ flowlines \in Networks(nn)
          /\ extras \in ExtrasArgs(nn)
    /\ drainmaxArg \in DrainmaxArgs
    /\ pc = "start"
    /\ outlets = <<>>
    /\ inlets = <<>>
    /\ max_area = 0
    /\ last_comid = 0
    /\ main = {}
    /\ idx = 0
    /\ drainmax = 0
    /\ n = 0
    /\ flowline = 0
    /\ boundaries = {}
    /\ drain_area = 0
    /\ subbasins = <<>>
    /\ sbkeys = <<>>
    /\ updown = <<>>
    /\ passes = 0
    /\ n0 = 0
    /\ Unclassified
    /\ NoPointFiles
    /\ NoCatchments
    /\ NoCall


\* ------------------------------------------------ make_subbasin_outlets
inputs == <<flowlines, extras, drainmaxArg>>

HydrosOf(cs) == [i \in 1..Len(cs) |-> hydroseqs[cs[i]]]

\* lines 869-872 and 971-975: the outlet list starts as the caller's extras
\* (no dam file and no gage file are given); the inlets are the flowlines
\* whose `up` is neither loaded nor 0
FindInlets ==
    /\ pc = "start"
    /\ outlets' = IF extras.isNone THEN <<>> ELSE extras.items
    /\ inlets' = ComidsOf(Filter(Listing,
                     {f \in Hydros : flowlines[f].up \notin Hydros
                                     /\ flowlines[f].up # 0}))
    /\ pc' = "terminal"
    /\ UNCHANGED <<inputs, aux, watershed, max_area, last_comid, main, idx, drainmax, n,
                   flowline, boundaries, drain_area, subbasins, sbkeys,
                   updown, passes, n0>>

\* line 979
MaxArea == SetMax({flowlines[f].drain : f \in Hydros})

\* LastComid taking the last, not the first, flowline of largest area
LastComidLast ==
    LET tied == Filter(Listing, {f \in Hydros : flowlines[f].drain = MaxArea})
    IN  ComidsOf(tied)[Len(tied)]

\* lines 980-981: the first flowline of the listing with the largest area
LastComid ==
    ComidsOf(Filter(Listing, {f \in Hydros : flowlines[f].drain = MaxArea}))[1]

\* lines 977-983
SelectTerminal ==
    /\ pc = "terminal"
    /\ max_area' = MaxArea
    /\ last_comid' = LastComid
    /\ outlets' = AppendNew(outlets, <<LastComid>>)
    /\ pc' = "second"
    /\ UNCHANGED <<inputs, aux, watershed, inlets, main, idx, drainmax, n, flowline,
                   boundaries, drain_area, subbasins, sbkeys, updown,
                   passes, n0>>

\* SecondOutlets assigning the list instead of appending to it
SecondOutletsAssigned(outs) == ComidsOf(Siblings(hydroseqs[last_comid]))

\* lines 987-992: every other flowline with the `down` of the watershed
\* outlet is appended (no membership test)
SecondOutlets(outs) == outs \o ComidsOf(Siblings(hydroseqs[last_comid]))

AddSecondOutlets ==
    /\ pc = "second"
    /\ outlets' = SecondOutlets(outlets)
    /\ pc' = "main"
    /\ UNCHANGED <<inputs, aux, watershed, inlets, max_area, last_comid, main, idx, drainmax,
                   n, flowline, boundaries, drain_area, subbasins, sbkeys,
                   updown, passes, n0>>

RECURSIVE DownPath(_)
\* lines 998-1002: the flowline and everything downstream of it
DownPath(h) ==
    IF flowlines[h].down \in Hydros THEN {h} \cup DownPath(flowlines[h].down)
    ELSE {h}

RECURSIVE UpPath(_)
\* lines 1007-1011: the flowline and its `up` chain, to the flowline with up 0
UpPath(h) ==
    IF flowlines[h].up # 0 THEN {h} \cup UpPath(flowlines[h].up)
    ELSE {h}

\* lines 994-1011
MainChannel ==
    IF Len(inlets) = 0 THEN UpPath(hydroseqs[last_comid])
    ELSE UNION {DownPath(hydroseqs[inlets[i]]) : i \in 1..Len(inlets)}

TraceMain ==
    /\ pc = "main"
    /\ main' = MainChannel
    /\ idx' = 1
    /\ pc' = "connect"
    /\ UNCHANGED <<inputs, aux, watershed, outlets, inlets, max_area, last_comid, drainmax, n,
                   flowline, boundaries, drain_area, subbasins, sbkeys,
                   updown, passes, n0>>

RECURSIVE ConnectWalk(_, _)
\* lines 1031-1036: move down until the next flowline is on the main channel
\* or the flowline reached has no loaded `down`
ConnectWalk(h, m) ==
    IF flowlines[h].down \in m THEN [at |-> h, main |-> m]
    ELSE LET d == flowlines[h].down
         IN  IF flowlines[d].down \notin Hydros
             THEN [at |-> d, main |-> m \cup {h}]
             ELSE ConnectWalk(d, m \cup {h})

\* ForcedOutlet adding the flowline only when the walk ended at the terminus
ForcedOutletOnFailure(at, outs) ==
    IF flowlines[at].down \notin Hydros /\ ~InList(flowlines[at].comid, outs)
    THEN Append(outs, flowlines[at].comid)
    ELSE outs

\* lines 1038-1040: the flowline the walk ended on becomes an outlet when
\* it is not one, whichever way the walk ended
ForcedOutlet(at, outs) ==
    IF ~InList(flowlines[at].comid, outs)
    THEN Append(outs, flowlines[at].comid)
    ELSE outs

\* JunctionOutlets that adds no other stream of the junction
JunctionOutletsNone(at, outs) == outs

\* lines 1046-1055: the other flowlines with the same `down` become outlets
JunctionOutlets(at, outs) == AppendNew(outs, ComidsOf(Siblings(at)))

\* lines 1015-1055, one outlet of the loop
Connect ==
    /\ pc = "connect"
    /\ idx <= Len(outlets)
    /\ LET h == hydroseqs[outlets[idx]]
       IN  IF flowlines[h].down \in Hydros /\ h \notin main
           THEN LET w == ConnectWalk(h, main)
                    outs == ForcedOutlet(w.at, outlets)
                IN  /\ main' = IF outs # outlets THEN w.main \cup {w.at}
                               ELSE w.main
                    /\ outlets' = JunctionOutlets(w.at, outs)
           ELSE UNCHANGED <<main, outlets>>
    /\ idx' = idx + 1
    /\ UNCHANGED <<inputs, aux, watershed, pc, inlets, max_area, last_comid, drainmax, n,
                   flowline, boundaries, drain_area, subbasins, sbkeys,
                   updown, passes, n0>>

\* DefaultDrainmax taking the smallest cumulative area, not the largest
DefaultDrainmaxSmallest ==
    CHOOSE a \in {flowlines[f].drain : f \in Hydros} :
        \A f \in Hydros : a <= flowlines[f].drain

\* line 1060: the drainmax used when the caller gives none
DefaultDrainmax == max_area

\* lines 1060-1062
StartSubdivide ==
    /\ pc = "connect"
    /\ idx > Len(outlets)
    /\ drainmax' = IF drainmaxArg = None THEN DefaultDrainmax ELSE drainmaxArg
    /\ n' = 0 - 1
    /\ n0' = Len(outlets)
    /\ pc' = "pass"
    /\ UNCHANGED <<inputs, aux, watershed, outlets, inlets, max_area, last_comid, main, idx,
                   flowline, boundaries, drain_area, subbasins, sbkeys,
                   updown, passes>>

\* the test of "while len(outlets) != n" is reached: on entry, and when the
\* "for outlet in outlets" of a pass has run off the end of the list
AtLoopHead == pc = "pass" \/ (pc = "walk" /\ idx > Len(outlets))

\* PassLength that leaves n as it was
PassLengthStale == n

\* line 1070: n = len(outlets)
PassLength == Len(outlets)

\* lines 1063-1070
PassStart ==
    /\ AtLoopHead
    /\ Len(outlets) # n
    /\ n' = PassLength
    /\ idx' = 1
    /\ passes' = passes + 1
    /\ pc' = "walk"
    /\ UNCHANGED <<inputs, aux, watershed, outlets, inlets, max_area, last_comid, main,
                   drainmax, flowline, boundaries, drain_area, subbasins,
                   sbkeys, updown, n0>>

\* lines 1072-1075
WalkStart ==
    /\ pc = "walk"
    /\ idx <= Len(outlets)
    /\ flowline' = hydroseqs[outlets[idx]]
    /\ boundaries' = {0} \cup ListSet(HydrosOf(inlets \o outlets))
    /\ drain_area' = flowlines[hydroseqs[outlets[idx]]].divarea
    /\ pc' = "step"
    /\ UNCHANGED <<inputs, aux, watershed, outlets, inlets, max_area, last_comid, main, idx,
                   drainmax, n, subbasins, sbkeys, updown, passes, n0>>

\* MajorRule without the area test: only an outlet among the tributaries counts
MajorRuleOutletOnly(h) ==
    \E i \in 1..Len(Tributaries(h)) :
        InList(flowlines[Tributaries(h)[i]].comid, outlets)

\* lines 1095-1097
MajorRule(h) ==
    \/ \E i \in 1..Len(Tributaries(h)) :
          InList(flowlines[Tributaries(h)[i]].comid, outlets)
    \/ flowlines[h].divarea - flowlines[flowlines[h].up].divarea > drainmax

\* line 1110
ThresholdRule(h) == drain_area - flowlines[h].divarea > drainmax

\* lines 1099-1101: every tributary that is not an outlet yet becomes one
MajorOutlets(h) == AppendNew(outlets, ComidsOf(Tributaries(h)))

\* lines 1112-1113: the flowline just downstream becomes an outlet
ThresholdOutlet(h) ==
    AppendNew(outlets, <<flowlines[flowlines[h].down].comid>>)

\* lines 1081-1121, one evaluation of the while test and of its body
WalkStep ==
    /\ pc = "step"
    /\ LET f == flowlines[flowline]
       IN  IF f.up \in boundaries
           THEN /\ idx' = idx + 1
                /\ pc' = "walk"
                /\ UNCHANGED <<outlets, flowline>>
           ELSE IF f.up \notin Hydros
           THEN \* line 1090: flowlines[flowline.up] is not there
                /\ pc' = "failed"
                /\ UNCHANGED <<outlets, flowline, idx>>
           ELSE IF MajorRule(flowline)
           THEN /\ outlets' = MajorOutlets(flowline)
                /\ idx' = idx + 1
                /\ pc' = "walk"
                /\ UNCHANGED flowline
           ELSE IF ThresholdRule(flowline)
           THEN IF f.down \notin Hydros
                THEN \* line 1112: flowlines[flowline.down] is not there
                     /\ pc' = "failed"
                     /\ UNCHANGED <<outlets, flowline, idx>>
                ELSE /\ outlets' = ThresholdOutlet(flowline)
                     /\ idx' = idx + 1
                     /\ pc' = "walk"
                     /\ UNCHANGED flowline
           ELSE /\ flowline' = f.up
                /\ UNCHANGED <<outlets, idx, pc>>
    /\ UNCHANGED <<inputs, aux, watershed, inlets, max_area, last_comid, main, drainmax, n,
                   boundaries, drain_area, subbasins, sbkeys, updown, passes,
                   n0>>


\* ----------------------------------------------- grouping into subbasins
RECURSIVE FloodPastOutlets(_, _)
\* Flood without the "comid not in outlets" test of line 1146
FloodPastOutlets(members, last) ==
    IF Len(last) = 0 THEN members
    ELSE LET found == Filter(Listing,
                         {h \in Hydros : flowlines[h].down \in ListSet(last)})
         IN  FloodPastOutlets(members \o ComidsOf(found), found)

RECURSIVE Flood(_, _)
\* lines 1139-1149: the members found so far and the hydroseqs added by the
\* last sweep; every sweep goes through the comids in dictionary order
Flood(members, last) ==
    IF Len(last) = 0 THEN members
    ELSE LET found == Filter(Listing,
                         {h \in Hydros : /\ flowlines[h].down \in ListSet(last)
                                         /\ ~InList(flowlines[h].comid, outlets)})
         IN  Flood(members \o ComidsOf(found), found)

\* lines 1129-1134: flowlines that share the `down` of the watershed outlet
\* and are not outlets join the subbasin of the watershed outlet
SharedOutlet ==
    ComidsOf(Filter(Listing,
        {h \in Hydros : /\ flowlines[h].down = flowlines[hydroseqs[last_comid]].down
                        /\ ~InList(flowlines[h].comid, outlets)}))

\* lines 1125-1149
Subbasins ==
    [o \in ListSet(outlets) |->
        LET first == IF o = last_comid THEN <<o>> \o SharedOutlet ELSE <<o>>
        IN  Flood(first, HydrosOf(first))]

\* line 1063 (the loop ends) and lines 1123-1149
Assemble ==
    /\ AtLoopHead
    /\ Len(outlets) = n
    /\ subbasins' = Subbasins
    /\ sbkeys' = AppendNew(<<>>, outlets)
    /\ idx' = 1
    /\ pc' = "link"
    /\ UNCHANGED <<inputs, aux, watershed, outlets, inlets, max_area, last_comid, main,
                   drainmax, n, flowline, boundaries, drain_area, updown,
                   passes, n0>>

\* ------------------------------------------------------- build_watershed
RECURSIVE DownSubbasin(_)
\* lines 560-561: from flowline h down to the first flowline that is the
\* outlet of a subbasin; 0 stands for the failed lookup flowlines[flowline.down]
DownSubbasin(h) ==
    IF flowlines[h].comid \in DOMAIN subbasins THEN flowlines[h].comid
    ELSE IF flowlines[h].down \notin Hydros THEN 0
         ELSE DownSubbasin(flowlines[h].down)

RECURSIVE DownEnd(_, _)
\* line 1505 of combine_flowlines: down from h while the next flowline is
\* one of the flowlines M of the subbasin
DownEnd(h, M) ==
    IF flowlines[h].down \in M THEN DownEnd(flowlines[h].down, M) ELSE h

RECURSIVE UpEnd(_, _)
\* lines 1507-1510 of combine_flowlines: up the `up` chain inside M
UpEnd(h, M) ==
    IF flowlines[h].up \in M THEN UpEnd(flowlines[h].up, M) ELSE h

\* lines 1496-1513 of combine_flowlines for the subbasin of outlet o: start
\* at the first of its flowlines in dictionary order, go down to the last
\* one (OutComID), then up its `up` chain to the first one (InletComID)
CombinedFlowline(o) ==
    LET M == ListSet(HydrosOf(subbasins[o]))
        current == Filter(Listing, M)[1]
        last == DownEnd(current, M)
    IN  [OutComID |-> flowlines[last].comid,
         InletComID |-> flowlines[UpEnd(last, M)].comid]

\* line 480: inlets[outcomid] = incomid, from the combined flowline of every
\* subbasin; SubbasinInlets(c) is inlets[c]
SubbasinInlets(c) ==
    LET o == CHOOSE q \in DOMAIN subbasins : CombinedFlowline(q).OutComID = c
    IN  CombinedFlowline(o).InletComID

\* Classify testing "up != 0" before "up in flowlines"
ClassifyOutsideFirst(up) ==
    IF up # 0 THEN "inlet"
    ELSE IF up \in Hydros THEN "interior"
    ELSE "headwater"

\* lines 547-553: what the `up` of the subbasin's inlet flowline makes of it
Classify(up) ==
    IF up \in Hydros THEN "interior"
    ELSE IF up # 0 THEN "inlet"
    ELSE "headwater"

\* lines 537-565 for one subbasin (the comids are written as decimal strings
\* on both sides of every comparison there; the model keeps the numbers).
\* The subbasin is classified (lines 545-553) before its downstream subbasin
\* is looked for (lines 558-565); up is flowlines[inlets[comid]].up.
Link ==
    /\ pc = "link"
    /\ idx <= Len(sbkeys)
    /\ \E up \in {flowlines[hydroseqs[SubbasinInlets(sbkeys[idx])]].up} :
       LET comid == sbkeys[idx]
           f == flowlines[hydroseqs[comid]]
           class == Classify(up)
           classified ==
               [watershed EXCEPT
                   !.sb_inlets = IF class = "interior"
                                 THEN [k \in DOMAIN @ \cup {comid} |->
                                          IF k = comid THEN flowlines[up].comid
                                          ELSE @[k]]
                                 ELSE @,
                   !.inlets = IF class = "inlet" THEN Append(@, comid) ELSE @,
                   !.headwaters = IF class = "headwater"
                                  THEN Append(@, comid) ELSE @]
       IN  IF f.down \in Hydros
           THEN IF DownSubbasin(f.down) = 0
                THEN /\ pc' = "failed"
                     /\ watershed' = classified
                     /\ UNCHANGED <<updown, idx>>
                ELSE /\ updown' = [k \in DOMAIN updown \cup {comid} |->
                                     IF k = comid THEN DownSubbasin(f.down)
                                     ELSE updown[k]]
                     /\ watershed' = classified
                     /\ idx' = idx + 1
                     /\ UNCHANGED pc
           ELSE /\ updown' = [k \in DOMAIN updown \cup {comid} |->
                                IF k = comid THEN 0 ELSE updown[k]]
                /\ watershed' = [classified EXCEPT
                                    !.outlets = Append(@, comid)]
                /\ idx' = idx + 1
                /\ UNCHANGED pc
    /\ UNCHANGED <<inputs, aux, outlets, inlets, max_area, last_comid, main,
                   drainmax, n, flowline, boundaries, drain_area, subbasins,
                   sbkeys, passes, n0>>

\* line 569
AddMassLinkage ==
    /\ pc = "link"
    /\ idx > Len(sbkeys)
    /\ pc' = "done"
    /\ UNCHANGED <<inputs, aux, watershed, outlets, inlets, max_area, last_comid, main, idx,
                   drainmax, n, flowline, boundaries, drain_area, subbasins,
                   sbkeys, updown, passes, n0>>

Next ==
    \/ FindInlets
    \/ SelectTerminal
    \/ AddSecondOutlets
    \/ TraceMain
    \/ Connect
    \/ StartSubdivide
    \/ PassStart
    \/ WalkStart
    \/ WalkStep
    \/ Assemble
    \/ Link
    \/ AddMassLinkage

Spec == Init /\ [][Next]_vars

TypeOK ==
    /\ pc \in {"start", "terminal", "second", "main", "connect", "pass",
               "walk", "step", "link", "done", "failed",
               "dams", "gages", "decide", "inlets",
               "overland", "estimated", "format", "skip", "format_omit",
               "skip_omit", "combined", "raised",
               "closest", "expand", "pick", "return", "returned",
               "nearest", "found", "ordered", "closure", "mapped"}
    /\ ListSet(outlets) \subseteq Comids


\* --------------------------------------------- the dam and the gage blocks
\* lines 883-969 of make_subbasin_outlets, run on a small network with a dam
\* file and a gage file.  find_flowlines (lines 885, 907) gives for every
\* point the comid of the nearest flowline of the flowline file, or None; the
\* points are taken one at a time, as the loops of lines 887 and 927 do.
\* HUC8 (line 949) is a free name of the method: it stands for the code of
\* the watershed, which the caller holds (line 1668).
HUC8     == "target"
OtherHUC == "other"

\* dates are written yyyymmdd; the years run from YearBase + 1
YearBase == 2000

YearSpan == {YearBase + y : y \in 1..MaxYear}

\* a first and a last year
YearPairs == {p \in YearSpan \X YearSpan : p[1] <= p[2]}

\* int(str(date)[:4]), lines 938-939: the first four digits of yyyymmdd
Year(date) == date \div 10000

\* what find_flowlines can return for a point: None, the comid of a flowline
\* of the flowline file that is not in the attribute file, or a loaded comid
PointMatches == {None, ComidOf(Outside)} \cup Comids

\* the records of a gage file, each with the comid matched to it (line 927)
GageRecords ==
    {[comid |-> c, day1 |-> p[1] * 10000 + 101, dayn |-> p[2] * 10000 + 1231,
      huc |-> u] :
        c \in PointMatches, p \in YearPairs, u \in {HUC8, OtherHUC}}

YearsArgs ==
    {[isNone |-> TRUE, first |-> 0, last |-> 0]} \cup
    {[isNone |-> FALSE, first |-> p[1], last |-> p[2]] : p \in YearPairs}

GageNetworks(nn) ==
    { Network(d, [h \in 1..nn |-> 1], inlet, TRUE) :
        d \in {e \in [1..nn -> 0..nn] : IsForest(e) /\ Listed(e)},
        inlet \in 0..nn }

\* the locals of the steps after the gage block, before they run
PipelineLocals ==
    /\ inlets = <<>>
    /\ max_area = 0
    /\ last_comid = 0
    /\ main = {}
    /\ idx = 0
    /\ drainmax = 0
    /\ n = 0
    /\ flowline = 0
    /\ boundaries = {}
    /\ drain_area = 0
    /\ subbasins = <<>>
    /\ sbkeys = <<>>
    /\ updown = <<>>
    /\ passes = 0
    /\ n0 = 0
    /\ Unclassified

pipelocals == <<inlets, max_area, last_comid, main, idx, drainmax, n,
                flowline, boundaries, drain_area, subbasins, sbkeys, updown,
                passes, n0, watershed>>

InitGage ==
    /\ \E nn \in 1..MaxGageNodes : flowlines \in GageNetworks(nn)
    /\ extras \in {[isNone |-> TRUE, items |-> <<>>],
                   [isNone |-> FALSE, items |-> <<ComidOf(1)>>]}
    /\ drainmaxArg = None
    /\ \E dams \in {NoFile, GivenFile}, gages \in {NoFile, GivenFile},
          ys \in YearsArgs : gage_block = GageLocals(dams, gages, ys)
    /\ NoCall
    /\ NoCatchments
    /\ pc = "start"
    /\ outlets = <<>>
    /\ PipelineLocals

\* lines 869-872
StartOutlets ==
    /\ pc = "start"
    /\ outlets' = IF extras.isNone THEN <<>> ELSE extras.items
    /\ pc' = "dams"
    /\ UNCHANGED <<inputs, aux, pipelocals>>

\* lines 889-891: a dam whose match is None or is not loaded is passed over
DamOutlet(outs, c) ==
    IF c # None /\ c \in Comids THEN Append(outs, c) ELSE outs

\* lines 883-891, one dam point
AddDam ==
    /\ pc = "dams"
    /\ damfile = GivenFile
    /\ di < MaxDams
    /\ \E c \in PointMatches : outlets' = DamOutlet(outlets, c)
    /\ gage_block' = [gage_block EXCEPT !.di = @ + 1]
    /\ UNCHANGED <<inputs, pc, pipelocals, overland_est, merge_try, call>>

\* lines 883 and 901: there is no dam file, or its points are used up
EndDams ==
    /\ pc = "dams"
    /\ pc' = "gages"
    /\ UNCHANGED <<inputs, outlets, aux, pipelocals>>

\* line 931
DataCriteria(c) == c # None

\* lines 935-944
YearCriteria(rec) ==
    IF years.isNone THEN TRUE
    ELSE \/ Year(rec.day1) <= years.last
         \/ Year(rec.dayn) >= years.first

\* WatershedCriteria that does not look at the `up` of the flowline
WatershedCriteriaAnyUp(rec) == rec.huc = HUC8

\* lines 948-949
WatershedCriteria(rec) ==
    /\ flowlines[hydroseqs[rec.comid]].up \in Hydros
    /\ rec.huc = HUC8

\* line 951
Existing(c) == ~InList(c, outlets)

\* lines 927-951, one record: the four criteria are worked out; line 948
\* looks the comid up in hydroseqs whatever data_criteria says, and the
\* lookup fails for None and for a comid that is not loaded
GageCriteria ==
    /\ pc = "gages"
    /\ gagefile = GivenFile
    /\ gi < MaxGages
    /\ \E rec \in GageRecords :
          LET read == [gage_block EXCEPT
                          !.gi = @ + 1,
                          !.record = rec,
                          !.data_criteria = DataCriteria(rec.comid),
                          !.year_criteria = YearCriteria(rec)]
          IN  IF rec.comid \in Comids
              THEN /\ gage_block' = [read EXCEPT
                                        !.watershed_criteria =
                                            WatershedCriteria(rec),
                                        !.existing = Existing(rec.comid)]
                   /\ pc' = "decide"
              ELSE /\ gage_block' = read
                   /\ pc' = "failed"
    /\ UNCHANGED <<inputs, outlets, pipelocals, overland_est, merge_try, call>>

\* line 953: all() takes one iterable; called with the four criteria as four
\* arguments it raises TypeError, whatever their values, so line 956
\* (gage_outlets.append) is never reached
GageDecide ==
    /\ pc = "decide"
    /\ pc' = "failed"
    /\ UNCHANGED <<inputs, outlets, aux, pipelocals>>

\* lines 905, 961 and 967-969: there is no gage file, or it has no record
\* left; the gage outlets are appended to the outlets
AddGageOutlets ==
    /\ pc = "gages"
    /\ outlets' = outlets \o gage_outlets
    /\ pc' = "inlets"
    /\ UNCHANGED <<inputs, aux, pipelocals>>

NextGage ==
    \/ StartOutlets
    \/ AddDam
    \/ EndDams
    \/ GageCriteria
    \/ GageDecide
    \/ AddGageOutlets

SpecGage == InitGage /\ [][NextGage]_vars


\* ------------------------------------------------- overland flow plane
\* get_overland (lines 1745-1755) and get_overland_vector (lines 1757-1768)
\* on the samples of one catchment.  A sample is the distance in metres from
\* a raster point of the catchment to its closest flowline point (what
\* get_distance and get_distance_vector return, in km) and the difference of
\* their elevations in cm.  A length is kept in metres and a slope as the
\* fraction num / den.

\* tolerance = 0.1 km, line 1745
Tolerance == 100

\* min_slope = 0.00001, line 1745
MinSlope == [num |-> 1, den |-> 100000]

\* (p1[2] - p2[2]) / L / 100000, lines 1754 and 1763: cm over km over 100000
SlopeOf(dz, dist) == [num |-> dz, den |-> dist * 100]

Distances == {0, 10, 50, Tolerance} \cup {Tolerance * (1 + k) : k \in 1..MaxFar}

Rises == {100 * r : r \in (0 - MaxRise)..MaxRise}

Samples == [dist : Distances, dz : Rises]

\* a network of one flowline, for the runs that use none
OneFlowline == Network([h \in {1} |-> 0], [h \in {1} |-> 1], 0, TRUE)

InitOverland ==
    /\ flowlines = OneFlowline
    /\ extras = [isNone |-> TRUE, items |-> <<>>]
    /\ drainmaxArg = None
    /\ pc = "overland"
    /\ outlets = <<>>
    /\ PipelineLocals
    /\ NoPointFiles
    /\ NoCall
    /\ \E ps \in UNION {[1..k -> Samples] : k \in 1..MaxSamples} :
          overland_est = [samples |-> ps, oi |-> 0, overland |-> <<>>,
                          overland_vector |->
                              [length |-> <<>>, slope |-> <<>>]]
    /\ merge_try = NotRunning

\* lines 1752-1755
get_overland(p) ==
    IF p.dist > Tolerance
    THEN [length |-> p.dist \div 2, slope |-> SlopeOf(p.dz, p.dist)]
    ELSE [length |-> Tolerance, slope |-> MinSlope]

\* lines 1762-1768.  The loop of lines 1765-1766 assigns tol and min_slope
\* to its own variables l and s; the arrays length and slope are left as
\* they were, and those are what is returned.
get_overland_vector(ps) ==
    [length |-> [i \in 1..Len(ps) |-> ps[i].dist \div 2],
     slope  |-> [i \in 1..Len(ps) |-> SlopeOf(ps[i].dz, ps[i].dist)]]

\* one sample given to get_overland
GetOverland ==
    /\ pc = "overland"
    /\ oi < Len(samples)
    /\ overland_est' =
           [overland_est EXCEPT
               !.overland = Append(@, get_overland(samples[oi + 1])),
               !.oi = @ + 1]
    /\ UNCHANGED <<inputs, pc, outlets, pipelocals, gage_block, merge_try, call>>

\* line 1898: all the samples given to get_overland_vector; line 1763
\* divides by the distances, and combine_catchments has set numpy to raise
\* on a division by zero (line 1798)
GetOverlandVector ==
    /\ pc = "overland"
    /\ oi = Len(samples)
    /\ IF \E i \in 1..Len(samples) : samples[i].dist = 0
       THEN /\ pc' = "raised"
            /\ UNCHANGED overland_est
       ELSE /\ overland_est' =
                   [overland_est EXCEPT
                       !.overland_vector = get_overland_vector(samples)]
            /\ pc' = "estimated"
    /\ UNCHANGED <<inputs, outlets, pipelocals, gage_block, merge_try, call>>

NextOverland ==
    \/ GetOverland
    \/ GetOverlandVector

SpecOverland == InitOverland /\ [][NextOverland]_vars

\* ------------------------------------------- merging catchment polygons
\* lines 1829-1867 of combine_catchments.  format_shape and combine_shapes
\* are not part of this file: a call of either ends well or raises.
InitMerge ==
    /\ flowlines = OneFlowline
    /\ extras = [isNone |-> TRUE, items |-> <<>>]
    /\ drainmaxArg = None
    /\ pc = "format"
    /\ outlets = <<>>
    /\ PipelineLocals
    /\ NoPointFiles
    /\ NoCall
    /\ overland_est = NotRunning
    /\ \E nc \in 0..MaxCatchments :
          merge_try = [ncatch |-> nc, ci |-> 0, shapes |-> 0, calls |-> <<>>]

mergerest == <<inputs, outlets, pipelocals, gage_block, overland_est, call>>

\* a call of format_shape or combine_shapes written to the history
Called(name, ok) == Append(calls, <<name, ok>>)

\* lines 1836-1844, one catchment: format_shape gives its shapes, or raises
\* and the handler of line 1850 starts over (lines 1852-1854)
FormatShape ==
    /\ pc = "format"
    /\ ci < ncatch
    /\ \/ /\ \E k \in 1..MaxParts :
                merge_try' = [merge_try EXCEPT
                                 !.shapes = @ + k,
                                 !.ci = @ + 1,
                                 !.calls = Called("format_shape", TRUE)]
          /\ UNCHANGED pc
       \/ /\ merge_try' = [merge_try EXCEPT
                               !.shapes = 0,
                               !.ci = 0,
                               !.calls = Called("format_shape", FALSE)]
          /\ pc' = "format_omit"
    /\ UNCHANGED mergerest

\* line 1846
CombineShapes ==
    /\ pc = "format"
    /\ ci = ncatch
    /\ \/ /\ merge_try' = [merge_try EXCEPT
                               !.calls = Called("combine_shapes", TRUE)]
          /\ pc' = "combined"
       \/ /\ merge_try' = [merge_try EXCEPT
                               !.calls = Called("combine_shapes", FALSE)]
          /\ pc' = "skip"
    /\ UNCHANGED mergerest

\* lines 1847-1848: the call with skip = True stands in an except clause
\* inside the outer try, so when it raises the handler of line 1850 runs
CombineSkip ==
    /\ pc = "skip"
    /\ \/ /\ merge_try' = [merge_try EXCEPT
                               !.calls = Called("combine_shapes skip", TRUE)]
          /\ pc' = "combined"
       \/ /\ merge_try' = [merge_try EXCEPT
                               !.calls = Called("combine_shapes skip", FALSE),
                               !.shapes = 0,
                               !.ci = 0]
          /\ pc' = "format_omit"
    /\ UNCHANGED mergerest

\* lines 1855-1863, one catchment: when format_shape raises here, no handler
\* is left and combine_catchments raises
FormatOmit ==
    /\ pc = "format_omit"
    /\ ci < ncatch
    /\ \/ /\ \E k \in 1..MaxParts :
                merge_try' = [merge_try EXCEPT
                                 !.shapes = @ + k,
                                 !.ci = @ + 1,
                                 !.calls = Called("format_shape omit", TRUE)]
          /\ UNCHANGED pc
       \/ /\ merge_try' = [merge_try EXCEPT
                               !.calls = Called("format_shape omit", FALSE)]
          /\ pc' = "raised"
    /\ UNCHANGED mergerest

\* line 1865
CombineOmit ==
    /\ pc = "format_omit"
    /\ ci = ncatch
    /\ \/ /\ merge_try' = [merge_try EXCEPT
                               !.calls = Called("combine_shapes", TRUE)]
          /\ pc' = "combined"
       \/ /\ merge_try' = [merge_try EXCEPT
                               !.calls = Called("combine_shapes", FALSE)]
          /\ pc' = "skip_omit"
    /\ UNCHANGED mergerest

\* lines 1866-1867: the last call; when it raises combine_catchments raises
CombineOmitSkip ==
    /\ pc = "skip_omit"
    /\ \/ /\ merge_try' = [merge_try EXCEPT
                               !.calls = Called("combine_shapes skip", TRUE)]
          /\ pc' = "combined"
       \/ /\ merge_try' = [merge_try EXCEPT
                               !.calls = Called("combine_shapes skip", FALSE)]
          /\ pc' = "raised"
    /\ UNCHANGED mergerest

NextMerge ==
    \/ FormatShape
    \/ CombineShapes
    \/ CombineSkip
    \/ FormatOmit
    \/ CombineOmit
    \/ CombineOmitSkip

SpecMerge == InitMerge /\ [][NextMerge]_vars


\* ------------------------------------------------------- closest_index
\* lines 45-108, for a point and the line shapes of a flowline file.  A
\* shape is a line of two vertices with its bounding box <<xmin, ymin,
\* xmax, ymax>>; coordinates are whole degrees.  The point lies on the row
\* PointY; a box spans the rows around it, the rows from it upward, or one
\* row only.  Indices count from 0, as in the code.
PointY == 2

YRanges == {<<PointY - 1, PointY + 1>>, <<PointY, PointY + 1>>,
            <<PointY + 1, PointY + 1>>}

XRanges == {p \in (0..MaxCoord) \X (0..MaxCoord) : p[1] <= p[2]}

LineShapes ==
    {[bbox |-> <<xr[1], yr[1], xr[2], yr[2]>>,
      points |-> << <<xr[1], yr[1]>>, <<xr[2], yr[2]>> >>] :
        xr \in XRanges, yr \in YRanges}

\* kilometres to the degree in get_distance (k1 of line 593, and k2 of line
\* 595 at the equator), to the kilometre
KmPerDegree == 111

\* get_distance, lines 584-602, which line 100 calls by its bare name: the
\* distance in km of two points given in degrees.  A distance is carried as
\* its square, which orders distances as they are ordered.
get_distance(p1, p2) ==
    KmPerDegree * KmPerDegree *
        ((p1[1] - p2[1]) * (p1[1] - p2[1]) + (p1[2] - p2[2]) * (p1[2] - p2[2]))

SetMin(S) == CHOOSE m \in S : \A x \in S : m <= x

\* lines 61 and 80
Contains(box, x, y) ==
    box[1] < x /\ x < box[3] /\ box[2] < y /\ y < box[4]

\* lines 75-78: the box grown by its own width and height on every side
Expanded(box) ==
    <<box[1] - (box[3] - box[1]), box[2] - (box[4] - box[2]),
      box[3] + (box[3] - box[1]), box[4] + (box[4] - box[2])>>

\* lines 54-63: the indices of the shapes whose box is around the point
BoxMatches(pt, shapes_) ==
    Filter(SeqOfRange(0, Len(shapes_) - 1),
           {i \in 0..(Len(shapes_) - 1) :
                Contains(shapes_[i + 1].bbox, pt[1], pt[2])})

\* lines 70-82: the same with the grown boxes
ExpandedMatches(pt, shapes_) ==
    Filter(SeqOfRange(0, Len(shapes_) - 1),
           {i \in 0..(Len(shapes_) - 1) :
                Contains(Expanded(shapes_[i + 1].bbox), pt[1], pt[2])})

\* lines 98-100: the larger side of the box (a length in degrees), lowered
\* to the distance (in km) of the nearest vertex; carried as its square
ShapeDistance(pt, shape) ==
    LET w == shape.bbox[3] - shape.bbox[1]
        h == shape.bbox[4] - shape.bbox[2]
        span == IF w >= h THEN w ELSE h
    IN  SetMin({span * span} \cup
               {get_distance(shape.points[k], pt) :
                    k \in 1..Len(shape.points)})

\* Closest taking the last of the shapes at the least distance
ClosestLastTie(pt, shapes_, ms) ==
    LET d == [k \in 1..Len(ms) |-> ShapeDistance(pt, shapes_[ms[k] + 1])]
        least == SetMin({d[k] : k \in 1..Len(ms)})
    IN  ms[SetMax({k \in 1..Len(ms) : d[k] = least})]

\* lines 92-103: matches[distances.index(min(distances))]
Closest(pt, shapes_, ms) ==
    LET d == [k \in 1..Len(ms) |-> ShapeDistance(pt, shapes_[ms[k] + 1])]
        least == SetMin({d[k] : k \in 1..Len(ms)})
    IN  ms[SetMin({k \in 1..Len(ms) : d[k] = least})]

InitClosest ==
    /\ flowlines = OneFlowline
    /\ extras = [isNone |-> TRUE, items |-> <<>>]
    /\ drainmaxArg = None
    /\ pc = "closest"
    /\ outlets = <<>>
    /\ PipelineLocals
    /\ NoPointFiles
    /\ NoCatchments
    /\ \E x \in 0..MaxCoord,
          ss \in UNION {[1..k -> LineShapes] : k \in 0..MaxShapes} :
          call = [point |-> <<x, PointY>>, shapes |-> ss, matches |-> <<>>,
                  result |-> None]

callrest == <<inputs, outlets, pipelocals, gage_block, overland_est,
              merge_try>>

\* lines 54-65
ScanBoxes ==
    /\ pc = "closest"
    /\ call' = [call EXCEPT !.matches = BoxMatches(call.point, call.shapes)]
    /\ pc' = IF BoxMatches(call.point, call.shapes) = <<>> THEN "expand"
             ELSE "pick"
    /\ UNCHANGED callrest

\* lines 65-82
ExpandBoxes ==
    /\ pc = "expand"
    /\ call' = [call EXCEPT
                   !.matches = ExpandedMatches(call.point, call.shapes)]
    /\ pc' = "pick"
    /\ UNCHANGED callrest

\* lines 84-103
PickClosest ==
    /\ pc = "pick"
    /\ call' = [call EXCEPT
                   !.matches =
                       IF Len(@) > 1
                       THEN <<Closest(call.point, call.shapes, @)>>
                       ELSE @]
    /\ pc' = "return"
    /\ UNCHANGED callrest

\* lines 105-108
ReturnIndex ==
    /\ pc = "return"
    /\ call' = [call EXCEPT
                   !.result = IF Len(call.matches) # 1 THEN None
                              ELSE call.matches[1]]
    /\ pc' = "returned"
    /\ UNCHANGED callrest

NextClosest ==
    \/ ScanBoxes
    \/ ExpandBoxes
    \/ PickClosest
    \/ ReturnIndex

SpecClosest == InitClosest /\ [][NextClosest]_vars


\* -------------------------------------------- the closest flowline point
\* lines 1888-1894 of combine_catchments, for the raster points of one
\* catchment and the vertices of its flowline.  A point is <<x, y>>, a
\* longitude west of Greenwich and a latitude north of the equator (the
\* elevation, the third column, plays no part in the search).
GridPoints == {<<0 - x, y>> : x \in 1..MaxGrid, y \in 1..MaxGrid}

\* lines 40-43
distance2(p1, p2) ==
    (p1[1] - p2[1]) * (p1[1] - p2[1]) + (p1[2] - p2[2]) * (p1[2] - p2[2])

\* numpy.dot of the two columns of a flowline point with a raster point
Dot(p1, p2) == p1[1] * p2[1] + p1[2] * p2[2]

\* ClosestFlowPoint taking the flowline point at the least squared distance
ClosestByDistance2(fps, point) ==
    LET least == SetMin({distance2(fps[k], point) : k \in 1..Len(fps)})
    IN  fps[SetMin({k \in 1..Len(fps) : distance2(fps[k], point) = least})]

\* lines 1893-1894: the flowline point whose dot product with the raster
\* point is least (argmin gives the first of them)
ClosestFlowPoint(fps, point) ==
    LET least == SetMin({Dot(fps[k], point) : k \in 1..Len(fps)})
    IN  fps[SetMin({k \in 1..Len(fps) : Dot(fps[k], point) = least})]

InitNearest ==
    /\ flowlines = OneFlowline
    /\ extras = [isNone |-> TRUE, items |-> <<>>]
    /\ drainmaxArg = None
    /\ pc = "nearest"
    /\ outlets = <<>>
    /\ PipelineLocals
    /\ NoPointFiles
    /\ NoCatchments
    /\ \E cps \in UNION {[1..k -> GridPoints] : k \in 1..MaxSamples},
          fps \in UNION {[1..k -> GridPoints] : k \in 1..MaxFlowPoints} :
          call = [catchpoints |-> cps, flowpoints |-> fps, closest |-> <<>>]

\* lines 1892-1894, one raster point
FindClosestPoint ==
    /\ pc = "nearest"
    /\ LET j == Len(call.closest) + 1
       IN  /\ call' = [call EXCEPT
                          !.closest =
                              Append(@, ClosestFlowPoint(call.flowpoints,
                                                         call.catchpoints[j]))]
           /\ pc' = IF j = Len(call.catchpoints) THEN "found" ELSE "nearest"
    /\ UNCHANGED callrest

NextNearest == FindClosestPoint

SpecNearest == InitNearest /\ [][NextNearest]_vars


\* ------------------------------- the subdivision loop as a function of order
\* lines 1062-1121 written as operators on the outlet list, so that the loop
\* can be run with its walks taken in another order.  An outlet list that
\* is Failed stands for the run that ended in a failed lookup.
Failed == <<None>>

RECURSIVE WalkOutlets(_, _, _, _)
\* lines 1081-1121: the walk at flowline h, for the outlet list outs, the
\* boundaries bnd and the area of the outlet it started from; the outlet
\* list when the walk ends
WalkOutlets(h, outs, bnd, area) ==
    LET f == flowlines[h]
    IN  IF f.up \in bnd THEN outs
        ELSE IF f.up \notin Hydros THEN Failed
        ELSE IF \/ \E i \in 1..Len(Tributaries(h)) :
                      InList(flowlines[Tributaries(h)[i]].comid, outs)
                \/ f.divarea - flowlines[f.up].divarea > drainmax
        THEN AppendNew(outs, ComidsOf(Tributaries(h)))
        ELSE IF area - f.divarea > drainmax
        THEN IF f.down \notin Hydros THEN Failed
             ELSE AppendNew(outs, <<flowlines[f.down].comid>>)
        ELSE WalkOutlets(f.up, outs, bnd, area)

\* lines 1073-1075 and the walk: the walk from outlet o, with the
\* boundaries taken from the list outs
WalkOf(o, outs) ==
    WalkOutlets(hydroseqs[o], outs,
                {0} \cup ListSet(HydrosOf(inlets \o outs)),
                flowlines[hydroseqs[o]].divarea)

\* PassInOrder that walks the first outlet of the list only
PassInOrderFirstOnly(outs, i) ==
    IF i > 1 THEN outs ELSE WalkOf(outs[i], outs)

RECURSIVE PassInOrder(_, _)
\* lines 1072-1121: the outlets are walked in list order, those appended on
\* the way included
PassInOrder(outs, i) ==
    IF i > Len(outs) THEN outs
    ELSE LET r == WalkOf(outs[i], outs)
         IN  IF r = Failed THEN Failed ELSE PassInOrder(r, i + 1)

RECURSIVE LoopInOrder(_, _)
\* lines 1063-1070: passes until one adds nothing
LoopInOrder(outs, len) ==
    IF outs = Failed THEN Failed
    ELSE IF Len(outs) = len THEN outs
    ELSE LoopInOrder(PassInOrder(outs, 1), Len(outs))

RECURSIVE PassAnyOrder(_, _)
\* a pass that takes the places of the list in any order, appending as the
\* code does: the lists it can end with.  Of the places left that hold the
\* same outlet the first is taken: the walk is the same from any of them.
PassAnyOrder(outs, walked) ==
    LET todo == (1..Len(outs)) \ walked
        next == {i \in todo : \A j \in todo : outs[j] = outs[i] => i <= j}
    IN  IF todo = {} THEN {outs}
        ELSE UNION {LET r == WalkOf(outs[i], outs)
                    IN  IF r = Failed THEN {Failed}
                        ELSE PassAnyOrder(r, walked \cup {i}) : i \in next}

RECURSIVE LoopAnyOrder(_, _)
\* the outlet sets the loop can end with when every pass takes any order
\* (the list a pass ends with is sorted: the next pass takes it in any order)
LoopAnyOrder(outs, len) ==
    IF outs = Failed THEN {ListSet(Failed)}
    ELSE IF Len(outs) = len THEN {ListSet(outs)}
    ELSE UNION {LoopAnyOrder(r, Len(outs)) :
                    r \in {IF q = Failed THEN Failed ELSE SortSeq(q, <) :
                               q \in PassAnyOrder(outs, {})}}

RECURSIVE PassDeferred(_, _, _)
\* a pass whose walks all see the list as it was when the pass started, and
\* whose outlets are appended when the pass ends
PassDeferred(outs, i, found) ==
    IF i > Len(outs) THEN AppendNew(outs, found)
    ELSE LET r == WalkOf(outs[i], outs)
         IN  IF r = Failed THEN Failed
             ELSE PassDeferred(outs, i + 1,
                               found \o SubSeq(r, Len(outs) + 1, Len(r)))

RECURSIVE LoopDeferred(_, _)
LoopDeferred(outs, len) ==
    IF outs = Failed THEN Failed
    ELSE IF Len(outs) = len THEN outs
    ELSE LoopDeferred(PassDeferred(outs, 1, <<>>), Len(outs))

\* lines 1062-1121 run from the list the connectivity loop left, in list
\* order, in every order, and with the appends held back to the pass end
RunOrders ==
    /\ pc = "pass"
    /\ n = 0 - 1
    /\ call' = [inorder |-> ListSet(LoopInOrder(outlets, n)),
                anyorder |-> LoopAnyOrder(outlets, n),
                deferred |-> ListSet(LoopDeferred(outlets, n))]
    /\ pc' = "ordered"
    /\ UNCHANGED callrest

NextOrder ==
    \/ FindInlets
    \/ SelectTerminal
    \/ AddSecondOutlets
    \/ TraceMain
    \/ Connect
    \/ StartSubdivide
    \/ RunOrders

\* networks of unit increments without an inlet
PlainNetworks(nn) ==
    { Network(d, [h \in 1..nn |-> 1], 0, byArea) :
        d \in {e \in [1..nn -> 0..nn] : IsForest(e) /\ Listed(e)},
        byArea \in BOOLEAN }

\* the networks of Init up to MaxOrderNodes flowlines, and the plain ones
\* up to MaxNodes
OrderNetworks(nn) ==
    IF nn <= MaxOrderNodes THEN Networks(nn) ELSE PlainNetworks(nn)

InitOrder ==
    /\ \E nn \in 1..MaxNodes :
          /\ flowlines \in OrderNetworks(nn)
          /\ extras \in ExtrasArgs(nn)
    /\ drainmaxArg \in DrainmaxArgs
    /\ pc = "start"
    /\ outlets = <<>>
    /\ PipelineLocals
    /\ NoPointFiles
    /\ NoCatchments
    /\ NoCall

SpecOrder == InitOrder /\ [][NextOrder]_vars


\* -------------------------------------------------- the caller's extras
\* line 872: `outlets = extras` binds the name outlets to the list object
\* the caller passed; from then on the caller's list is the outlet list.
\* The variable extras keeps the list as it was when the call was made.
CallersList ==
    IF pc = "start" THEN extras.items ELSE outlets


\* ------------------------------------------------- find_subbasin_comids
\* lines 187-229, for the flowlines of the attribute file and the comid of
\* one of them
InitClosure ==
    /\ \E nn \in 1..MaxNodes :
          /\ flowlines \in Networks(nn)
          /\ \E o \in 1..nn :
                call = [outletcomid |-> ComidOf(o), comids |-> <<ComidOf(o)>>,
                        current |-> <<o>>, updown |-> <<>>]
    /\ extras = [isNone |-> TRUE, items |-> <<>>]
    /\ drainmaxArg = None
    /\ pc = "closure"
    /\ outlets = <<>>
    /\ PipelineLocals
    /\ NoPointFiles
    /\ NoCatchments

\* UpstreamOf following the `up` of the flowlines of the last sweep only
UpstreamOfUp(last) ==
    Filter(Listing, {h \in Hydros : \E l \in ListSet(last) :
                                       flowlines[l].up = h})

\* lines 209-212: the flowlines, in dictionary order, whose `down` is one
\* of the flowlines the last sweep found
UpstreamOf(last) ==
    Filter(Listing, {h \in Hydros : flowlines[h].down \in ListSet(last)})

\* lines 205-212, one sweep of the while loop
Sweep ==
    /\ pc = "closure"
    /\ Len(call.current) > 0
    /\ call' = [call EXCEPT
                   !.comids = @ \o ComidsOf(UpstreamOf(call.current)),
                   !.current = UpstreamOf(call.current)]
    /\ UNCHANGED <<pc, callrest>>

\* lines 221-225: line 221 looks the `down` of the flowline, a hydroseq, up
\* among the keys of hydroseqs, which are comids
DownOf(c) ==
    IF flowlines[hydroseqs[c]].down \in Comids
    THEN hydroseqs[flowlines[hydroseqs[c]].down]
    ELSE 0

\* lines 205 and 218-229: the loop has ended; the map is made and returned
MakeUpdown ==
    /\ pc = "closure"
    /\ Len(call.current) = 0
    /\ call' = [call EXCEPT
                   !.updown = [c \in ListSet(call.comids) |->
                                  IF c = call.outletcomid THEN 0
                                  ELSE DownOf(c)]]
    /\ pc' = "mapped"
    /\ UNCHANGED callrest

NextClosure ==
    \/ Sweep
    \/ MakeUpdown

SpecClosure == InitClosure /\ [][NextClosure]_vars /\ WF_vars(NextClosure)


\* ------------------------------------------------------------ properties
Assembled == DOMAIN subbasins # {}

OutletSet == ListSet(outlets)

Occurrences(c, s) == Cardinality({i \in 1..Len(s) : s[i] = c})

\* C1: once the subbasin map is assembled every loaded comid is a member of
\* exactly one subbasin (in one member list, once)
C1_Partition ==
    Assembled =>
        \A c \in Comids :
            /\ Cardinality({o \in DOMAIN subbasins : InList(c, subbasins[o])}) = 1
            /\ \A o \in DOMAIN subbasins : Occurrences(c, subbasins[o]) <= 1

TerminalIsRoot == flowlines[hydroseqs[last_comid]].down \notin Hydros

Probe_C1 == (Assembled /\ TerminalIsRoot) => C1_Partition


RECURSIVE ReachesExit(_, _)
\* following updown from subbasin k meets the terminal sentinel 0 within
\* `hops` steps
ReachesExit(k, hops) ==
    IF updown[k] = 0 THEN TRUE
    ELSE IF hops = 0 \/ updown[k] \notin DOMAIN updown THEN FALSE
         ELSE ReachesExit(updown[k], hops - 1)

\* C2: the finished mass linkage has exactly one subbasin mapped to the
\* terminal sentinel and every subbasin reaches it within N hops, N the
\* number of subbasins (so there is no cycle)
C2_MassLinkage ==
    pc = "done" =>
        /\ Cardinality({k \in DOMAIN updown : updown[k] = 0}) = 1
        /\ \A k \in DOMAIN updown : ReachesExit(k, Cardinality(DOMAIN updown))

Roots == {h \in Hydros : flowlines[h].down \notin Hydros}

Probe_C2 == (pc = "done" /\ Cardinality(Roots) = 1) => C2_MassLinkage


\* the flowlines, other than the watershed outlet, that share its `down`
ParallelDelta == ListSet(ComidsOf(Siblings(hydroseqs[last_comid])))

InSubdivider == pc \in {"pass", "walk", "step"}

RECURSIVE UpHeight(_)
\* flowlines above h on its `up` chain
UpHeight(h) ==
    IF h \notin Hydros THEN 0
    ELSE IF flowlines[h].up \notin Hydros THEN 0
         ELSE 1 + UpHeight(flowlines[h].up)

\* what is left to do in the subdivision loop, most significant first:
\* flowlines that are not outlets yet, a further pass being due, outlets still
\* to walk in this pass, the walk of the current outlet not begun, flowlines
\* above the walk's position
Rank ==
    << Cardinality(Comids \ OutletSet),
       IF Len(outlets) # n THEN 1 ELSE 0,
       IF pc = "pass" THEN 0 ELSE Len(outlets) + 1 - idx,
       IF pc = "walk" THEN 1 ELSE 0,
       IF pc = "step" THEN UpHeight(flowline) ELSE 0 >>

RECURSIVE LexLess(_, _)
LexLess(a, b) ==
    IF Len(a) = 0 THEN FALSE
    ELSE \/ Head(a) < Head(b)
         \/ Head(a) = Head(b) /\ LexLess(Tail(a), Tail(b))

\* C3: the subdivision loop terminates: every step of it lowers Rank (a
\* tuple of naturals, compared lexicographically); a pass begins only when
\* the pass before added an outlet; there are at most nodes + 1 passes
C3_Terminates ==
    [][ (InSubdivider /\ InSubdivider') =>
            /\ LexLess(Rank', Rank)
            /\ (passes' # passes => Len(outlets) > n)
            /\ passes' <= Cardinality(Hydros) + 1 ]_vars

\* the loop has ended after more than one pass, having added outlets
C3_Witness == pc = "link" /\ passes >= 2 /\ Len(outlets) > n0



RECURSIVE Stem(_)
\* the upstream stem of h: h, up(h), up(up(h)), ... as far as the last
\* flowline before another outlet or the top of the network
Stem(h) ==
    LET u == flowlines[h].up
    IN  IF u \in Hydros /\ ~InList(flowlines[u].comid, outlets)
        THEN {h} \cup Stem(u)
        ELSE {h}

\* C4: when the subdivision loop has ended, no flowline on the stem of an
\* outlet lies more than drainmax of cumulative area below the outlet's
C4_SpanBounded ==
    Assembled =>
        \A o \in OutletSet : \A m \in Stem(hydroseqs[o]) :
            flowlines[hydroseqs[o]].divarea - flowlines[m].divarea <= drainmax


\* ------------------------------------------------- the synthetic chain
\* five flowlines in a line, cumulative areas 10, 20, 30, 100, 100 from the
\* top down, listed in any order: at[k] is the hydroseq of the k-th from the top
ChainAreas == <<10, 20, 30, 100, 100>>

ChainNetwork(at) ==
    [h \in 1..Len(ChainAreas) |->
        LET k == CHOOSE j \in 1..Len(ChainAreas) : at[j] = h
        IN  [comid |-> ComidOf(h), hydroseq |-> h,
             up |-> IF k = 1 THEN 0 ELSE at[k - 1],
             down |-> IF k = Len(ChainAreas) THEN 0 ELSE at[k + 1],
             drain |-> ChainAreas[k], divarea |-> ChainAreas[k]]]

InitChain ==
    /\ \E at \in [1..Len(ChainAreas) -> 1..Len(ChainAreas)] :
          /\ \A j, k \in 1..Len(ChainAreas) : at[j] = at[k] => j = k
          /\ flowlines = ChainNetwork(at)
    /\ extras \in {[isNone |-> TRUE, items |-> <<>>],
                   [isNone |-> FALSE, items |-> <<>>]}
    /\ drainmaxArg = 25
    /\ pc = "start"
    /\ outlets = <<>>
    /\ inlets = <<>>
    /\ max_area = 0
    /\ last_comid = 0
    /\ main = {}
    /\ idx = 0
    /\ drainmax = 0
    /\ n = 0
    /\ flowline = 0
    /\ boundaries = {}
    /\ drain_area = 0
    /\ subbasins = <<>>
    /\ sbkeys = <<>>
    /\ updown = <<>>
    /\ passes = 0
    /\ n0 = 0
    /\ Unclassified
    /\ NoPointFiles
    /\ NoCatchments
    /\ NoCall

SpecChain == InitChain /\ [][Next]_vars

\* the outlets appended by the subdivision loop
NewOutlets == {outlets[i] : i \in (n0 + 1)..Len(outlets)}

WithArea(a) == {flowlines[h].comid : h \in {g \in Hydros : flowlines[g].divarea = a}}

\* the flowline just below the 30 to 100 jump: the upper one of area 100
Upper100 == {flowlines[h].comid :
                h \in {g \in Hydros : /\ flowlines[g].divarea = 100
                                      /\ flowlines[g].down \in Hydros}}

\* C5 as stated: on the chain the loop adds outlets exactly at the flowline
\* below the 20 to 30 jump and at the flowline below the 30 to 100 jump
C5_ChainAsStated ==
    Assembled => NewOutlets = WithArea(30) \cup Upper100

\* C5 as amended: on the chain the loop adds exactly one outlet, at the
\* flowline of area 30 (just below the 20 to 30 jump), and none at a
\* flowline of area 100
C5_Chain ==
    Assembled => NewOutlets = WithArea(30)

C5_Witness ==
    /\ pc = "link"
    /\ Cardinality(Hydros) = Len(ChainAreas)
    /\ drainmax = 25
    /\ NewOutlets = WithArea(30)
    /\ Cardinality(NewOutlets) = 1


\* ------------------------------------------------------ outlets, members
\* C7: a comid that is in the outlet set stays in it, at every step of the
\* selection, the connectivity loop and the subdivision loop
C7_OutletsGrow == [][OutletSet \subseteq OutletSet']_vars

\* the outlet list as it leaves the selection (extras, watershed outlet,
\* second outlets)
Selected ==
    SecondOutlets(AppendNew(IF extras.isNone THEN <<>> ELSE extras.items,
                            <<last_comid>>))

\* the run is over and outlets were added after the selection, by the
\* connectivity loop or by the subdivision loop
C7_Witness ==
    /\ pc = "done"
    /\ Len(Selected) >= 2
    /\ Len(outlets) > Len(Selected)

RECURSIVE DrainsTo(_)
\* the first outlet on the downstream path of flowline h, h included;
\* 0 when the path leaves the network without meeting one
DrainsTo(h) ==
    IF flowlines[h].comid \in OutletSet THEN flowlines[h].comid
    ELSE IF flowlines[h].down \notin Hydros THEN 0
         ELSE DrainsTo(flowlines[h].down)

\* C8: the keys of the assembled map are the outlets, and the members of the
\* subbasin of outlet o are o and the flowlines whose downstream path
\* reaches o before any other outlet
C8_Members ==
    Assembled =>
        /\ DOMAIN subbasins = OutletSet
        /\ \A o \in DOMAIN subbasins : ListSet(subbasins[o]) \subseteq Comids
        /\ \A h \in Hydros :
              \E d \in {DrainsTo(h)} :
                  \A o \in DOMAIN subbasins :
                      InList(flowlines[h].comid, subbasins[o]) <=> d = o

\* a subbasin of three flowlines or more next to another subbasin
C8_Witness ==
    /\ pc = "link"
    /\ idx = 1
    /\ Cardinality(DOMAIN subbasins) >= 2
    /\ \E o \in DOMAIN subbasins : Len(subbasins[o]) >= 3

\* C10: once selected, the watershed outlet has the largest cumulative area,
\* no flowline listed before it has that area, and it is in the outlet set
C10_Terminal ==
    pc \notin {"start", "terminal"} =>
        /\ InList(last_comid, outlets)
        /\ \E t \in Hydros :
              /\ flowlines[t].comid = last_comid
              /\ \A h \in Hydros :
                    /\ flowlines[h].drain <= flowlines[t].drain
                    /\ h < t => flowlines[h].drain < flowlines[t].drain

\* a tie for the largest area has been resolved
C10_Witness ==
    /\ pc = "second"
    /\ \E h \in Hydros : /\ h # hydroseqs[last_comid]
                         /\ flowlines[h].drain = max_area
    /\ last_comid \in OutletSet

\* -------------------------------------------------------------- gages
\* the gage of the loop has passed the four criteria of lines 931-951
GagePasses ==
    /\ pc = "decide"
    /\ data_criteria
    /\ year_criteria
    /\ watershed_criteria
    /\ existing

C13_UnresolvedNonFatal ==
    /\ None \notin OutletSet
    /\ ~(pc = "failed" /\ record.comid = None)


\* ------------------------------------------------------- mass linkage
\* the lookup flowlines[flowline.down] of line 561 has failed
LinkFailed == Assembled /\ pc = "failed"

\* C14: every linked subbasin is mapped to the first outlet met on the way
\* down from its own outlet, or to the terminal sentinel 0 (and recorded as a
\* watershed outlet) when the way down meets no outlet, and the walk down
\* never fails
C14_DownstreamSubbasin ==
    /\ ~LinkFailed
    /\ \A k \in DOMAIN updown :
          LET d == flowlines[hydroseqs[k]].down
              below == IF d \in Hydros THEN DrainsTo(d) ELSE 0
          IN  /\ updown[k] = below
              /\ below = 0 <=> InList(k, w_outlets)

Probe_C14 == (Assembled /\ TerminalIsRoot) => C14_DownstreamSubbasin

\* the uppermost flowline of the stem of h
TopOfStem(h) == CHOOSE m \in Stem(h) : flowlines[m].up \notin Stem(h)

\* the subbasins build_watershed has classified
Classified ==
    ListSet(w_headwaters) \cup ListSet(w_inlets) \cup DOMAIN sb_inlets

Subdividing == pc \in {"pass", "walk", "step", "link", "done"} \/ LinkFailed

\* C16 as stated: with no drainmax given, drainmax is the cumulative area of
\* the watershed outlet and the subdivision loop adds no outlet to those the
\* connectivity loop left
C16_NoSubdivision ==
    (drainmaxArg = None /\ Subdividing) =>
        /\ drainmax = flowlines[hydroseqs[last_comid]].drain
        /\ Len(outlets) = n0


\* the area test of the major tributary rule (line 1097) at flowline h
AreaTest(h) ==
    flowlines[h].divarea - flowlines[flowlines[h].up].divarea > drainmax

\* the tributaries of h, as comids
TributaryComids(h) == ListSet(ComidsOf(Tributaries(h)))

\* C16 as amended: with no drainmax given, drainmax is the cumulative area
\* of the watershed outlet and no area test fires in the subdivision loop;
\* a step of the loop adds outlets only among the tributaries of the walked
\* flowline, and only when one of them is an outlet already
C16_DefaultDrainmax ==
    [][ (drainmaxArg = None /\ pc = "step") =>
            /\ drainmax = flowlines[hydroseqs[last_comid]].drain
            /\ (flowlines[flowline].up \in Hydros =>
                    ~AreaTest(flowline) /\ ~ThresholdRule(flowline))
            /\ (OutletSet' # OutletSet =>
                    /\ OutletSet' \ OutletSet \subseteq TributaryComids(flowline)
                    /\ TributaryComids(flowline) \cap OutletSet # {}) ]_vars

\* with no drainmax given the subdivision loop has added an outlet
C16_Witness ==
    /\ drainmaxArg = None
    /\ pc = "link"
    /\ Len(outlets) > n0


\* ------------------------------------------- the rules of the upstream walk
\* the walk from outlets[idx] stands at `flowline` and the body of the while
\* loop of line 1081 is entered: its `up` is loaded and is no boundary
BodyEntered ==
    /\ pc = "step"
    /\ flowlines[flowline].up \notin boundaries
    /\ flowlines[flowline].up \in Hydros

\* the walk from outlets[idx] ends with this step
WalkStops == pc' = "walk" /\ idx' = idx + 1

\* the drop of cumulative area from the outlet of the walk to flowline h
AreaDrop(h) == flowlines[hydroseqs[outlets[idx]]].divarea - flowlines[h].divarea

\* the threshold rule as the claim words it, at the walked flowline: the
\* flowline just downstream, which is the one the walk came from, is an
\* outlet after the step, no other flowline is added, and the walk stops
ThresholdRuleAsClaimed ==
    LET d == flowlines[flowline].down
    IN  /\ d \in Hydros
        /\ flowlines[d].up = flowline
        /\ flowlines[d].comid \in OutletSet'
        /\ OutletSet' \ OutletSet \subseteq {flowlines[d].comid}
        /\ WalkStops

\* C19: when the drop of cumulative area from the outlet of the walk to the
\* walked flowline c exceeds drainmax and the major tributary rule does not
\* fire at c, the flowline just downstream of c is in the outlet set after
\* the step, no other flowline is added by the step, and the walk from this
\* outlet stops
C19_ThresholdRule ==
    [][ (/\ pc = "step"
         /\ AreaDrop(flowline) > drainmax
         /\ ~(BodyEntered /\ MajorRule(flowline))) => ThresholdRuleAsClaimed ]_vars

\* the same at the flowlines where the body of the loop is entered
Probe_C19_Entered ==
    [][ (/\ BodyEntered
         /\ AreaDrop(flowline) > drainmax
         /\ ~MajorRule(flowline)) => ThresholdRuleAsClaimed ]_vars

\* the largest cumulative area among the tributaries of h
LargestTributaryArea(h) ==
    SetMax({flowlines[t].divarea : t \in ListSet(Tributaries(h))})

\* the condition of the major tributary rule as the claim words it
MajorCondition(h) ==
    \/ TributaryComids(h) \cap OutletSet # {}
    \/ /\ Tributaries(h) # <<>>
       /\ flowlines[h].divarea - LargestTributaryArea(h) > drainmax

\* the `up` flowline of every junction is a tributary of largest cumulative
\* area there, so that the major tributary of the code (line 1090) is the
\* largest tributary
UpIsLargest ==
    \A h \in Hydros :
        Tributaries(h) # <<>> =>
            /\ flowlines[h].up \in ListSet(Tributaries(h))
            /\ flowlines[flowlines[h].up].divarea = LargestTributaryArea(h)

\* the major tributary rule as the claim words it, at the walked flowline
MajorRuleAsClaimed ==
    IF MajorCondition(flowline)
    THEN TributaryComids(flowline) \subseteq OutletSet' /\ WalkStops
    ELSE (OutletSet' \ OutletSet) \cap TributaryComids(flowline) = {}

\* C20: at a walked flowline j, if a tributary of j is an outlet already or
\* the cumulative area of j less that of its largest tributary exceeds
\* drainmax, then after the step every tributary of j is an outlet and the
\* walk from this outlet stops; otherwise the step adds no tributary of j
\* (stated where the `up` of every junction is its largest tributary)
C20_MajorTributaryRule ==
    [][ (pc = "step" /\ UpIsLargest) => MajorRuleAsClaimed ]_vars

\* the same at the flowlines where the body of the loop is entered
Probe_C20_Entered ==
    [][ (BodyEntered /\ UpIsLargest) => MajorRuleAsClaimed ]_vars

\* the same where the body is entered, with the `up` flowline in the place
\* of the largest tributary, on every network
Probe_C20_Up ==
    [][ BodyEntered =>
            IF TributaryComids(flowline) \cap OutletSet # {} \/ AreaTest(flowline)
            THEN TributaryComids(flowline) \subseteq OutletSet' /\ WalkStops
            ELSE (OutletSet' \ OutletSet) \cap TributaryComids(flowline) = {} ]_vars


\* ---------------------------------------------------- overland, merging
\* a result with the clamped values: length 0.1 km and slope 1e-5
Clamped(length, slope) ==
    /\ length = Tolerance
    /\ slope.num * MinSlope.den = MinSlope.num * slope.den

\* C17: for every sample closer than 0.1 km to its flowline point, the
\* result of get_overland and the entries of the result of
\* get_overland_vector are length 0.1 km and slope 1e-5, whatever the
\* difference of elevation
C17_OverlandClamp ==
    /\ \A i \in 1..Len(overland) :
          samples[i].dist < Tolerance =>
              Clamped(overland[i].length, overland[i].slope)
    /\ pc = "estimated" =>
          \A i \in 1..Len(samples) :
              samples[i].dist < Tolerance =>
                  Clamped(overland_vector.length[i], overland_vector.slope[i])

\* the part of C17 about get_overland
Probe_C17_Scalar ==
    \A i \in 1..Len(overland) :
        samples[i].dist < Tolerance =>
            Clamped(overland[i].length, overland[i].slope)

\* C18: whichever calls of format_shape and combine_shapes fail,
\* combine_catchments does not raise
C18_MergeNeverFatal == pc # "raised"

\* some call has failed and the polygons were merged all the same
Probe_C18_Recovered ==
    ~(pc = "combined" /\ \E i \in 1..Len(calls) : ~calls[i][2])

\* --------------------------------------------------- connectivity outlets
\* the running step of the connectivity loop takes the outlet it is at off
\* the main channel and walks down from it
ConnectWalks ==
    /\ pc = "connect"
    /\ idx <= Len(outlets)
    /\ flowlines[hydroseqs[outlets[idx]]].down \in Hydros
    /\ hydroseqs[outlets[idx]] \notin main

\* where that walk ends
ConnectEnd == ConnectWalk(hydroseqs[outlets[idx]], main).at

\* the walk ends on a flowline whose `down` is on the main channel (success)
ConnectSucceeds ==
    /\ ConnectWalks
    /\ flowlines[ConnectEnd].down \in main

\* C21 as stated: a walk that meets the main channel adds no outlet
C21_ForcedOnlyOnFailure ==
    [][ConnectSucceeds => OutletSet' = OutletSet]_vars

\* C21: a walk of the connectivity loop adds the flowline it ends on and the
\* other flowlines of that junction, and nothing else, whether it met the
\* main channel or reached the terminus; an outlet that is not walked adds
\* nothing
C21_ConnectOutlets ==
    [][ pc = "connect" =>
          IF ConnectWalks
          THEN OutletSet' = OutletSet
                   \cup {flowlines[ConnectEnd].comid}
                   \cup ListSet(ComidsOf(Siblings(ConnectEnd)))
          ELSE OutletSet' = OutletSet ]_vars

\* the outlet list when the connectivity loop starts (lines 869-992)
OutletsBeforeConnect ==
    SecondOutlets(AppendNew(IF extras.isNone THEN <<>> ELSE extras.items,
                            <<last_comid>>))

\* the first outlet was off the main channel, its walk met the main channel
\* on another flowline, and that flowline has been made an outlet
C21_Witness ==
    /\ pc = "connect"
    /\ idx = 2
    /\ LET h == hydroseqs[outlets[1]]
           w == ConnectWalk(h, MainChannel)
       IN  /\ flowlines[h].down \in Hydros
           /\ h \notin MainChannel
           /\ w.at # h
           /\ flowlines[w.at].down \in MainChannel
           /\ ~InList(flowlines[w.at].comid, OutletsBeforeConnect)
           /\ InList(flowlines[w.at].comid, outlets)

\* the connectivity loop has run to its end
ConnectDone ==
    pc \in {"pass", "walk", "step", "link", "done"}

\* the outlets the connectivity loop added: n0 is the length of the list
\* when the loop ended, and the list only grows at its end
ConnectAdded ==
    {outlets[i] : i \in 1..n0} \ ListSet(OutletsBeforeConnect)

\* C22: once the connectivity loop has ended, every flowline that shares
\* its `down` with an outlet the loop added is an outlet too
C22_SiblingsAreOutlets ==
    ConnectDone =>
        \A c \in ConnectAdded :
            ListSet(ComidsOf(Siblings(hydroseqs[c]))) \subseteq OutletSet

\* the loop has ended after adding both flowlines of a junction of two:
\* the first of them it added was the end of a walk, the other its sibling
C22_Witness ==
    /\ ConnectDone
    /\ \E c \in ConnectAdded :
          /\ Len(Siblings(hydroseqs[c])) = 1
          /\ flowlines[Siblings(hydroseqs[c])[1]].comid \in ConnectAdded

\* ----------------------------------------------------------- closest_index
\* the shapes whose box is strictly around the point, by index
Around == {i \in 0..(Len(call.shapes) - 1) :
              Contains(call.shapes[i + 1].bbox, call.point[1], call.point[2])}

\* the shapes whose box grown by its width and height is strictly around it
AroundGrown ==
    {i \in 0..(Len(call.shapes) - 1) :
        LET b == call.shapes[i + 1].bbox
        IN  /\ 2 * b[1] - b[3] < call.point[1]
            /\ call.point[1] < 2 * b[3] - b[1]
            /\ 2 * b[2] - b[4] < call.point[2]
            /\ call.point[2] < 2 * b[4] - b[2]}

\* the grown boxes count only when no box is around the point
Candidates == IF Around # {} THEN Around ELSE AroundGrown

Probe_C23_Grown ==
    ~(pc = "returned" /\ Around = {} /\ call.result # None)

\* the nearest vertex, not the box, decided between two candidates
Probe_C23_Vertex ==
    ~(/\ pc = "returned"
      /\ call.result = 1
      /\ Candidates = {0, 1}
      /\ \E k \in 1..2 :
            get_distance(call.shapes[2].points[k], call.point) <
                ShapeDistance(call.point, call.shapes[1]))

\* --------------------------------------------- the closest flowline point
\* C24: for every raster point of the catchment the flowline point taken
\* as closest is at the least squared planar distance from it among the
\* flowline points
C24_ClosestPoint ==
    \A j \in 1..Len(call.closest) :
        \A k \in 1..Len(call.flowpoints) :
            distance2(call.closest[j], call.catchpoints[j]) <=
                distance2(call.flowpoints[k], call.catchpoints[j])

\* ------------------------------------------------- passes of the subdivider
\* the outlets as they were when the running pass started (line 1070)
OutletsAtPassStart == SubSeq(outlets, 1, n)

\* C25: a walk of a pass starts from an outlet that was there when the pass
\* started, and its boundaries are the inlets and the outlets as they were
\* when the pass started
C25_PassReadOnly ==
    pc = "step" =>
        /\ idx <= n
        /\ boundaries = {0} \cup ListSet(HydrosOf(inlets \o OutletsAtPassStart))

\* the subdivision loop has ended without a failed lookup
LoopEnded ==
    \/ pc \in {"link", "done"}
    \/ Assembled

\* the loop written as operators ends with the outlets the loop of the
\* actions ends with
Probe_C26_InOrder ==
    LoopEnded => OutletSet = ListSet(LoopInOrder(SubSeq(outlets, 1, n0), 0 - 1))

\* C26: whatever the order of the walks within the passes, and whether the
\* outlets found are appended at once or when the pass ends, the loop ends
\* with the same outlet set
C26_OrderIndependent ==
    pc = "ordered" =>
        /\ call.anyorder = {call.inorder}
        /\ call.deferred = call.inorder

\* the loop has been run in every order on a list of several outlets, and
\* it added outlets to the list
C26_Witness ==
    /\ pc = "ordered"
    /\ Cardinality(OutletSet) >= 2
    /\ None \notin call.inorder
    /\ call.inorder # OutletSet

\* --------------------------------------------------- the terminal outlet
\* C27: the terminal outlet selected has no loaded flowline downstream
C27_TerminalIsRoot ==
    pc \notin {"start", "terminal"} => TerminalIsRoot

\* when no two flowlines tie for the largest area the terminal outlet is a
\* root
Probe_C27_NoTie ==
    (/\ pc \notin {"start", "terminal"}
     /\ Cardinality({h \in Hydros : flowlines[h].drain = MaxArea}) = 1)
        => TerminalIsRoot

\* ------------------------------------------------ lookups of the subdivider
\* the upstream walk has looked up a hydroseq that is not loaded
WalkFailed == pc = "failed" /\ ~Assembled

\* C28: the upstream walk of the subdivision loop never looks up a flowline
\* that is not loaded
C28_NoLookupFailure == ~WalkFailed

\* the walk fails only when it starts on an inlet flowline
Probe_C28_OnInlet ==
    WalkFailed => /\ flowline = hydroseqs[outlets[idx]]
                  /\ InList(outlets[idx], inlets)

\* ---------------------------------------------------- the caller's extras
\* C29: the list the caller passed as extras holds what it held when the
\* call was made
C29_ExtrasUnchanged ==
    ~extras.isNone => CallersList = extras.items

\* ---------------------------------------------------- find_subbasin_comids
\* the outlet and every flowline from which the way down reaches it
UpstreamClosure ==
    {flowlines[h].comid : h \in {g \in Hydros :
                                    hydroseqs[call.outletcomid] \in DownPath(g)}}

\* C30: find_subbasin_comids ends, and the keys of the map it returns are
\* the outlet and the flowlines upstream of it, the outlet mapped to 0
C30_FindSubbasinComids ==
    /\ [](pc = "mapped" =>
             /\ DOMAIN call.updown = UpstreamClosure
             /\ call.updown[call.outletcomid] = 0)
    /\ <>(pc = "mapped")

\* the map is returned for an outlet with a junction upstream and with
\* flowlines that are not upstream of it
C30_Witness ==
    /\ pc = "mapped"
    /\ Cardinality(DOMAIN call.updown) >= 3
    /\ Len(Tributaries(hydroseqs[call.outletcomid])) >= 2
    /\ DOMAIN call.updown # Comids

====
